---- MODULE Spec2Model ----
(***************************************************************************)
(* Model of the Telegram bot backend: the pooled SQLite data-access layer  *)
(* (src/database.py) and the webhook dispatcher (src/api/webhook.py).      *)
(*                                                                         *)
(* Callers are threads running one store operation at a time.  Each        *)
(* operation is cut at its blocking points: Queue.get, the acquisition of  *)
(* db._lock, and every storage call (execute / commit).                    *)
(***************************************************************************)
EXTENDS Integers, Sequences, FiniteSets, TLC

\* ---------------------------------------------------------------- bounds
pool_size == 2      \* ReferralDB(pool_size=...), scaled down from 20
PoolCallers == 3    \* concurrent callers contending for the pool
NumCallers == 2     \* concurrent callers of the store operations
NumUsers == 1       \* distinct user ids
NumRequests == 2    \* webhook requests in one run
MaxCalls == 3       \* store operations started in one run
MaxRegistryCalls == 4   \* the same, in a run of user-registry operations
MaxCleanups == 2    \* cleanup_old_stats calls started in one run
MaxStoreCalls == 2  \* operations started in a run that mixes all six
MaxTicks == 1       \* seconds the clock advances in one run

Callers == 1..PoolCallers
StoreCallers == 1..NumCallers
Conns == 1..pool_size
Users == 1..NumUsers
Requests == 1..NumRequests

\* cleanup_old_stats keeps 24 hours of samples: 86400 seconds.
Day == 86400

\* get_usage_stats reports the last hour: 3600 seconds.
Hour == 3600

\* asyncio.wait_for(..., timeout=8.0): the processing deadline in seconds.
Timeout == 8

\* Response(status_code=200)
StatusOK == 200

\* int(time.time()) when the process starts: one day after second 0.
Epoch == Day

NoConn == 0
NoCaller == 0

VARIABLES
    pool,                \* self.pool: the FIFO queue of idle connections
    lock,                \* self._lock: NoCaller, or the caller holding it
    active_connections,  \* self.active_connections
    max_concurrent,      \* self.max_concurrent
    tables_created,      \* hasattr(self, '_tables_created')
    now,                 \* int(time.time())
    disk,                \* the committed content of the database file
    writer,              \* the connection with an open write transaction
    pending,             \* that transaction's view of the tables
    pc,                  \* each caller's position
    op,                  \* each caller's current operation and argument
    conn,                \* the connection each caller borrowed
    ret,                 \* each caller's outcome of its last operation
    calls,               \* store operations started so far
    inc_ok,              \* per user: increment calls whose commit succeeded
    inc_err,             \* per user: some increment call hit a failure
    seen,                \* per caller: what a read was entitled to see
    waited,              \* per caller: pool.get() found the queue empty
    scen,                \* progress of an add/count/add/count sequence
    cl,                  \* per caller: what its cleanup_old_stats saw and left
    last_clean,          \* the last committed cleanup: its cut-off and result
    failed,              \* per caller: a storage call of its operation raised
    added,               \* user ids for which an add_new_user call has returned
    w_pc,                \* each webhook request's position
    w_task,              \* the state of its process_update task
    w_clock,             \* seconds since asyncio.wait_for started
    w_status,            \* the status code it was answered with
    w_log                \* logger.error calls it made

vars == <<pool, lock, active_connections, max_concurrent, tables_created, now,
          disk, writer, pending, pc, op, conn, ret, calls,
          inc_ok, inc_err, seen, waited, scen, cl, last_clean, failed,
          added, w_pc, w_task, w_clock, w_status, w_log>>

webVars == <<w_pc, w_task, w_clock, w_status, w_log>>
storeVars == <<pool, lock, active_connections, max_concurrent, tables_created,
               now, disk, writer, pending, pc, op, conn, ret, calls,
               inc_ok, inc_err, seen, waited, scen, cl, last_clean,
               failed, added>>

poolVars == <<pool, lock, active_connections, max_concurrent, tables_created,
             now>>
dbVars == <<disk, writer, pending>>
histVars == <<inc_ok, inc_err, seen, waited>>

\* ------------------------------------------------------------- helpers
MaxLast(a, b) == b
Max(a, b) == IF a >= b THEN a ELSE b

NoOp == [name |-> "none", arg |-> 0]
NoRet == [kind |-> "none", val |-> 0]
NoSeen == [quiet |-> FALSE, n |-> 0]
NoScen == [stage |-> 0, who |-> NoCaller, u |-> 0, c1 |-> 0, c2 |-> 0]
NoClean == [at |-> 0, before |-> {}, after |-> {}, rerun |-> FALSE]

\* The tables _create_tables_initial creates: referral_counts and
\* usage_stats, both empty; it does not create the users table.
EmptyTables ==
    [referral_counts |-> <<>>, usage_stats |-> {},
     has_users |-> FALSE, users |-> {}]

\* What a statement on connection c reads: its own open transaction, else
\* the committed state.
View(c) == IF writer = c THEN pending ELSE disk

\* Another connection holds the write transaction: SQLITE_BUSY.
Busy(c) == writer # NoConn /\ writer # c

\* INSERT ... VALUES (?, 1) ON CONFLICT(user_id) DO UPDATE SET
\* ref_count = ref_count + 1
UpsertLost(tbl, u) == u :> 1 @@ tbl
Upsert(tbl, u) ==
    IF u \in DOMAIN tbl THEN [tbl EXCEPT ![u] = @ + 1] ELSE u :> 1 @@ tbl

\* result[0] if result else 0
RefCountOf(tbl, u) == IF u \in DOMAIN tbl THEN tbl[u] ELSE 0

Borrowed == {t \in Callers : conn[t] # NoConn}

\* An increment_referral_count(u) call is between its call and its return.
IncInFlight(u) ==
    \E t \in Callers : op[t] = [name |-> "increment", arg |-> u] /\ pc[t] # "idle"

\* An add_new_user call is between its call and its return.
AddInFlight ==
    \E t \in Callers : op[t].name = "add_new_user" /\ pc[t] # "idle"

\* The user-registry operations.
RegistryOps == {"add_new_user", "get_unique_users_count"}

OtherRegistryCall(t) ==
    \E t2 \in Callers \ {t} : op[t2].name \in RegistryOps

\* Observer of a sequence add_new_user(u); get_unique_users_count();
\* add_new_user(u); get_unique_users_count() with no other registry
\* operation in between: stage counts the calls and returns seen so far
\* (odd: the call `who` made is running), c1 and c2 are the two counts.
ScenOnCall(t, name, arg) ==
    IF name \notin RegistryOps THEN scen
    ELSE IF scen.stage \in {2, 6} /\ name = "get_unique_users_count"
    THEN [scen EXCEPT !.stage = @ + 1, !.who = t]
    ELSE IF scen.stage = 4 /\ name = "add_new_user" /\ arg = scen.u
    THEN [scen EXCEPT !.stage = 5, !.who = t]
    ELSE IF name = "add_new_user" /\ ~OtherRegistryCall(t)
    THEN [stage |-> 1, who |-> t, u |-> arg, c1 |-> 0, c2 |-> 0]
    ELSE NoScen

ScenOnReturn(t) ==
    IF op[t].name \notin RegistryOps THEN scen
    ELSE IF scen.who = t /\ scen.stage \in {1, 5}
    THEN [scen EXCEPT !.stage = @ + 1, !.who = NoCaller]
    ELSE IF scen.who = t /\ scen.stage = 3
    THEN [scen EXCEPT !.stage = 4, !.who = NoCaller, !.c1 = ret[t].val]
    ELSE IF scen.who = t /\ scen.stage = 7
    THEN [scen EXCEPT !.stage = 8, !.who = NoCaller, !.c2 = ret[t].val]
    ELSE NoScen

\* ---------------------------------------------------------------- Init
\* ReferralDB.__init__: the pool is filled, the counters are zero and no
\* caller has started.
InitProcess ==
    /\ pool = [i \in 1..pool_size |-> i]
    /\ lock = NoCaller
    /\ active_connections = 0
    /\ max_concurrent = 0
    /\ tables_created = FALSE
    /\ now = Epoch
    /\ writer = NoConn
    /\ pending = disk
    /\ pc = [t \in Callers |-> "idle"]
    /\ op = [t \in Callers |-> NoOp]
    /\ conn = [t \in Callers |-> NoConn]
    /\ ret = [t \in Callers |-> NoRet]
    /\ calls = 0
    /\ inc_ok = [u \in Users |-> 0]
    /\ inc_err = [u \in Users |-> FALSE]
    /\ seen = [t \in Callers |-> NoSeen]
    /\ waited = [t \in Callers |-> FALSE]
    /\ scen = NoScen
    /\ cl = [t \in Callers |-> NoClean]
    /\ last_clean = [at |-> 0, kept |-> {}]
    /\ failed = [t \in Callers |-> FALSE]
    /\ added = {}
    /\ w_pc = [r \in Requests |-> "idle"]
    /\ w_task = [r \in Requests |-> "none"]
    /\ w_clock = [r \in Requests |-> 0]
    /\ w_status = [r \in Requests |-> 0]
    /\ w_log = [r \in Requests |-> 0]

\* The process starts on a new database file.
Init ==
    /\ disk = EmptyTables
    /\ InitProcess

\* The usage_stats rows a database file can hold: distinct ids, timestamps
\* from one day before the process started to MaxTicks seconds later.
StoredSamples ==
    SUBSET {[id |-> ts + 1, timestamp |-> ts, concurrent_connections |-> 1,
             max_concurrent |-> 1] : ts \in 0..MaxTicks}

\* Rows written around one hour before the process started, with distinct
\* connection counts.
RecentSamples ==
    SUBSET {[id |-> k + 1, timestamp |-> Epoch - Hour + k,
             concurrent_connections |-> k + 1, max_concurrent |-> k + 2] :
                k \in 0..MaxTicks}

InitReport ==
    /\ \E stats \in RecentSamples :
          disk = [EmptyTables EXCEPT !.usage_stats = stats]
    /\ InitProcess

\* The process starts on a database file that already holds usage samples:
\* CREATE TABLE IF NOT EXISTS usage_stats keeps the rows of an existing table.
InitStats ==
    /\ \E stats \in StoredSamples :
          disk = [EmptyTables EXCEPT !.usage_stats = stats]
    /\ InitProcess

\* ------------------------------------------------------ get_connection
\* How many operations a run starts.
CallBudget(name) ==
    IF name \in RegistryOps THEN MaxRegistryCalls
    ELSE IF name = "cleanup_old_stats" THEN MaxCleanups
    ELSE MaxCalls

CallPeek(t, name, arg) ==
    /\ pc[t] = "idle"
    /\ calls < CallBudget(name)
    /\ calls' = calls + 1
    /\ op' = [op EXCEPT ![t] = [name |-> name, arg |-> arg]]
    /\ IF pool = <<>>
       THEN /\ pc' = [pc EXCEPT ![t] = "get"]
            /\ waited' = [waited EXCEPT ![t] = TRUE]
            /\ UNCHANGED conn
       ELSE /\ pc' = [pc EXCEPT ![t] = "acquire"]
            /\ conn' = [conn EXCEPT ![t] = Head(pool)]
            /\ UNCHANGED waited
    /\ scen' = ScenOnCall(t, name, arg)
    /\ UNCHANGED <<webVars, added, failed, cl, last_clean, pool, lock, active_connections, max_concurrent,
                   tables_created, now, dbVars, ret, inc_ok, inc_err, seen>>

\* A caller enters an operation, `with db.get_connection() as conn`, and
\* reaches conn = self.pool.get(): it takes the connection at the head of
\* the queue, or finds the queue empty and blocks.
Call(t, name, arg) ==
    /\ pc[t] = "idle"
    /\ calls < CallBudget(name)
    /\ calls' = calls + 1
    /\ op' = [op EXCEPT ![t] = [name |-> name, arg |-> arg]]
    /\ IF pool = <<>>
       THEN /\ pc' = [pc EXCEPT ![t] = "get"]
            /\ waited' = [waited EXCEPT ![t] = TRUE]
            /\ UNCHANGED <<pool, conn>>
       ELSE /\ pc' = [pc EXCEPT ![t] = "acquire"]
            /\ conn' = [conn EXCEPT ![t] = Head(pool)]
            /\ pool' = Tail(pool)
            /\ UNCHANGED waited
    /\ scen' = ScenOnCall(t, name, arg)
    /\ UNCHANGED <<webVars, added, failed, cl, last_clean, lock, active_connections, max_concurrent, tables_created,
                   now, dbVars, ret, inc_ok, inc_err, seen>>

\* The blocked pool.get() returns once a connection has been put back.
PoolGetNoBlock(t) ==
    /\ pc[t] = "get"
    /\ conn' = [conn EXCEPT ![t] = IF pool = <<>> THEN 1 ELSE Head(pool)]
    /\ pool' = IF pool = <<>> THEN pool ELSE Tail(pool)
    /\ pc' = [pc EXCEPT ![t] = "acquire"]
    /\ UNCHANGED <<webVars, added, failed, scen, cl, last_clean, lock, active_connections, max_concurrent, tables_created,
                   now, dbVars, op, ret, calls, histVars>>

PoolGet(t) ==
    /\ pc[t] = "get"
    /\ pool # <<>>
    /\ conn' = [conn EXCEPT ![t] = Head(pool)]
    /\ pool' = Tail(pool)
    /\ pc' = [pc EXCEPT ![t] = "acquire"]
    /\ UNCHANGED <<webVars, added, failed, scen, cl, last_clean, lock, active_connections, max_concurrent, tables_created,
                   now, dbVars, op, ret, calls, histVars>>

\* _log_usage(): takes a second connection from the pool, inserts one
\* sample, commits and puts the connection back.
LogUsage(tables, now_s) ==
    [tables EXCEPT !.usage_stats = @ \cup
        {[id |-> Cardinality(@) + 1, timestamp |-> now_s,
          concurrent_connections |-> active_connections + 1,
          max_concurrent |-> Max(max_concurrent, active_connections + 1)]}]

\* with self._lock: active_connections += 1; max_concurrent = max(...);
\* if hasattr(self, '_tables_created'): self._log_usage()
\* and the connection is yielded to the caller's block.  The critical
\* section is one step: nothing reads the counters between its statements.
Acquire(t) ==
    /\ pc[t] = "acquire"
    /\ lock = NoCaller
    /\ active_connections' = active_connections + 1
    /\ max_concurrent' = Max(max_concurrent, active_connections + 1)
    /\ IF tables_created
       THEN /\ pool # <<>>
            /\ ~Busy(Head(pool))
            /\ pool' = Append(Tail(pool), Head(pool))
            /\ disk' = LogUsage(View(Head(pool)), now)
            /\ pending' = disk'
            /\ writer' = NoConn
       ELSE UNCHANGED <<pool, dbVars>>
    /\ pc' = [pc EXCEPT ![t] = "body"]
    /\ UNCHANGED <<webVars, added, failed, scen, cl, last_clean, lock, tables_created, now, op, conn, ret, calls,
                   histVars>>

ReleasePutOnSuccess(t) ==
    /\ pc[t] = "rel_put"
    /\ pool' = IF ret[t].kind = "raised" THEN pool ELSE Append(pool, conn[t])
    /\ conn' = [conn EXCEPT ![t] = NoConn]
    /\ pc' = [pc EXCEPT ![t] = "rel_dec"]
    /\ UNCHANGED <<webVars, added, failed, scen, cl, last_clean, lock,
                   active_connections, max_concurrent, tables_created,
                   now, dbVars, op, ret, calls, histVars>>

\* finally: if conn: self.pool.put(conn)
ReleasePut(t) ==
    /\ pc[t] = "rel_put"
    /\ pool' = Append(pool, conn[t])
    /\ conn' = [conn EXCEPT ![t] = NoConn]
    /\ pc' = [pc EXCEPT ![t] = "rel_dec"]
    /\ UNCHANGED <<webVars, added, failed, scen, cl, last_clean, lock, active_connections, max_concurrent, tables_created,
                   now, dbVars, op, ret, calls, histVars>>

ReleaseDecUnlessWaited(t) ==
    /\ pc[t] = "rel_dec"
    /\ lock = NoCaller
    /\ active_connections' =
          IF waited[t] THEN active_connections ELSE active_connections - 1
    /\ pc' = [pc EXCEPT ![t] = "idle"]
    /\ op' = [op EXCEPT ![t] = NoOp]
    /\ ret' = [ret EXCEPT ![t] = NoRet]
    /\ seen' = [seen EXCEPT ![t] = NoSeen]
    /\ waited' = [waited EXCEPT ![t] = FALSE]
    /\ scen' = ScenOnReturn(t)
    /\ cl' = [cl EXCEPT ![t] = NoClean]
    /\ failed' = [failed EXCEPT ![t] = FALSE]
    /\ UNCHANGED <<webVars, added, last_clean, pool, lock, max_concurrent,
                   tables_created, now, dbVars, conn, calls, inc_ok, inc_err>>

\* with self._lock: self.active_connections -= 1; the operation returns.
ReleaseDec(t) ==
    /\ pc[t] = "rel_dec"
    /\ lock = NoCaller
    /\ active_connections' = active_connections - 1
    /\ pc' = [pc EXCEPT ![t] = "idle"]
    /\ op' = [op EXCEPT ![t] = NoOp]
    /\ ret' = [ret EXCEPT ![t] = NoRet]
    /\ seen' = [seen EXCEPT ![t] = NoSeen]
    /\ waited' = [waited EXCEPT ![t] = FALSE]
    /\ scen' = ScenOnReturn(t)
    /\ cl' = [cl EXCEPT ![t] = NoClean]
    /\ failed' = [failed EXCEPT ![t] = FALSE]
    /\ UNCHANGED <<webVars, added, last_clean, pool, lock, max_concurrent, tables_created, now, dbVars,
                   conn, calls, inc_ok, inc_err>>


\* ------------------------------------------------------------- storage
\* conn.commit(): makes the connection's open transaction durable; a no-op
\* when the connection has none.
CommitOn(c) ==
    IF writer = c
    THEN /\ disk' = pending
         /\ writer' = NoConn
         /\ pending' = pending
    ELSE UNCHANGED dbVars

\* -------------------------------------------- increment_referral_count
increment_referral_count(t, u) == Call(t, "increment", u)

\* with db._lock: cur.execute(upsert) -- the statement opens the
\* connection's transaction; the lock stays held until after the commit.
IncExecute(t) ==
    /\ pc[t] = "body"
    /\ op[t].name = "increment"
    /\ lock = NoCaller
    /\ ~Busy(conn[t])
    /\ lock' = t
    /\ pending' = [View(conn[t]) EXCEPT
                      !.referral_counts = Upsert(@, op[t].arg)]
    /\ writer' = conn[t]
    /\ pc' = [pc EXCEPT ![t] = "inc_commit"]
    /\ UNCHANGED <<webVars, added, failed, scen, cl, last_clean, pool, active_connections, max_concurrent, tables_created,
                   now, disk, op, conn, ret, calls, histVars>>

\* The same in two steps, as the code takes them.  with db._lock: the
\* caller acquires the mutex ...
IncLock(t) ==
    /\ pc[t] = "body"
    /\ op[t].name = "increment"
    /\ lock = NoCaller
    /\ lock' = t
    /\ pc' = [pc EXCEPT ![t] = "inc_execute"]
    /\ UNCHANGED <<webVars, added, failed, scen, cl, last_clean, pool,
                   active_connections, max_concurrent, tables_created, now,
                   dbVars, op, conn, ret, calls, histVars>>

\* ... and cur.execute(upsert) runs once no other connection holds the
\* write transaction.
IncExecuteLocked(t) ==
    /\ pc[t] = "inc_execute"
    /\ ~Busy(conn[t])
    /\ pending' = [View(conn[t]) EXCEPT
                      !.referral_counts = Upsert(@, op[t].arg)]
    /\ writer' = conn[t]
    /\ pc' = [pc EXCEPT ![t] = "inc_commit"]
    /\ UNCHANGED <<webVars, added, failed, scen, cl, last_clean, pool, lock,
                   active_connections, max_concurrent, tables_created, now,
                   disk, op, conn, ret, calls, histVars>>

\* A storage call raises sqlite3.Error (an I/O error, or "database is locked"
\* when another connection holds the write transaction);
\* except sqlite3.Error: return False  (the lock is released on the way out)
IncReturnFalse(t) ==
    /\ lock' = NoCaller
    /\ ret' = [ret EXCEPT ![t] = [kind |-> "False", val |-> 0]]
    /\ inc_err' = [inc_err EXCEPT ![op[t].arg] = TRUE]
    /\ pc' = [pc EXCEPT ![t] = "rel_put"]
    /\ UNCHANGED <<webVars, added, failed, scen, cl, last_clean, pool, active_connections, max_concurrent, tables_created,
                   now, op, conn, calls, inc_ok, seen, waited>>

IncExecuteFail(t) ==
    /\ pc[t] = "body"
    /\ op[t].name = "increment"
    /\ lock = NoCaller
    /\ UNCHANGED dbVars
    /\ IncReturnFalse(t)

IncCommitKeepLock(t) ==
    /\ pc[t] = "inc_commit"
    /\ CommitOn(conn[t])
    /\ ret' = [ret EXCEPT ![t] = [kind |-> "True", val |-> 0]]
    /\ inc_ok' = [inc_ok EXCEPT ![op[t].arg] = @ + 1]
    /\ pc' = [pc EXCEPT ![t] = "rel_put"]
    /\ UNCHANGED <<webVars, added, failed, scen, cl, last_clean, pool, lock,
                   active_connections, max_concurrent, tables_created,
                   now, op, conn, calls, inc_err, seen, waited>>

\* conn.commit() succeeds; return True
IncCommit(t) ==
    /\ pc[t] = "inc_commit"
    /\ CommitOn(conn[t])
    /\ lock' = NoCaller
    /\ ret' = [ret EXCEPT ![t] = [kind |-> "True", val |-> 0]]
    /\ inc_ok' = [inc_ok EXCEPT ![op[t].arg] = @ + 1]
    /\ pc' = [pc EXCEPT ![t] = "rel_put"]
    /\ UNCHANGED <<webVars, added, failed, scen, cl, last_clean, pool, active_connections, max_concurrent, tables_created,
                   now, op, conn, calls, inc_err, seen, waited>>

\* conn.commit() raises.  The code issues no rollback: after SQLITE_BUSY the
\* transaction stays open on the connection; after an I/O error SQLite has
\* rolled it back itself.
IncCommitFail(t) ==
    /\ pc[t] = "inc_commit"
    /\ \/ UNCHANGED dbVars
       \/ /\ writer' = NoConn
          /\ pending' = disk
          /\ UNCHANGED disk
    /\ IncReturnFalse(t)

\* ------------------------------------------------- get_referral_count
get_referral_count(t, u) == Call(t, "get_referral_count", u)

\* cur.execute(SELECT ...); result = cur.fetchone();
\* return result[0] if result else 0
GetRefSelect(t) ==
    /\ pc[t] = "body"
    /\ op[t].name = "get_referral_count"
    /\ ret' = [ret EXCEPT ![t] =
                 [kind |-> "int",
                  val |-> RefCountOf(View(conn[t]).referral_counts, op[t].arg)]]
    /\ seen' = [seen EXCEPT ![t] =
                 [quiet |-> ~IncInFlight(op[t].arg) /\ ~inc_err[op[t].arg],
                  n |-> inc_ok[op[t].arg]]]
    /\ pc' = [pc EXCEPT ![t] = "rel_put"]
    /\ UNCHANGED <<webVars, added, failed, scen, cl, last_clean, poolVars, dbVars, op, conn, calls, inc_ok,
                   inc_err, waited>>

\* The SELECT raises sqlite3.Error: nothing catches it, the exception leaves
\* get_referral_count through get_connection's finally block.
GetRefSelectFail(t) ==
    /\ pc[t] = "body"
    /\ op[t].name = "get_referral_count"
    /\ ret' = [ret EXCEPT ![t] = [kind |-> "raised", val |-> 0]]
    /\ pc' = [pc EXCEPT ![t] = "rel_put"]
    /\ UNCHANGED <<webVars, added, failed, scen, cl, last_clean, poolVars, dbVars, op, conn, calls, histVars>>

\* -------------------------------------------------------- add_new_user
add_new_user(t, u) == Call(t, "add_new_user", u)

\* INSERT OR IGNORE INTO users (user_id) VALUES (?)
InsertOrIgnore(tables, u) == [tables EXCEPT !.users = @ \cup {u}]

AddUserInsert(t) ==
    /\ pc[t] = "body"
    /\ op[t].name = "add_new_user"
    /\ View(conn[t]).has_users
    /\ ~Busy(conn[t])
    /\ pending' = InsertOrIgnore(View(conn[t]), op[t].arg)
    /\ writer' = conn[t]
    /\ pc' = [pc EXCEPT ![t] = "add_commit"]
    /\ UNCHANGED <<webVars, added, failed, scen, cl, last_clean, poolVars, disk, op, conn,
                   ret, calls, histVars>>

\* add_new_user returns None, after the commit or after
\* except Exception: logger.error(...)
AddUserReturn(t) ==
    /\ ret' = [ret EXCEPT ![t] = [kind |-> "None", val |-> 0]]
    /\ added' = added \cup {op[t].arg}
    /\ pc' = [pc EXCEPT ![t] = "rel_put"]
    /\ UNCHANGED <<webVars, failed, scen, cl, last_clean, poolVars, op, conn, calls,
                   histVars>>

\* The INSERT raises: "no such table: users" on a database where
\* get_unique_users_count has not yet created the table, "database is
\* locked", or an I/O error.
AddUserInsertFail(t) ==
    /\ pc[t] = "body"
    /\ op[t].name = "add_new_user"
    /\ UNCHANGED dbVars
    /\ AddUserReturn(t)

\* The INSERT raises "no such table: users": the database has no users
\* table yet.
AddUserNoTable(t) ==
    /\ ~View(conn[t]).has_users
    /\ AddUserInsertFail(t)

\* conn.commit()
AddUserCommit(t) ==
    /\ pc[t] = "add_commit"
    /\ CommitOn(conn[t])
    /\ AddUserReturn(t)

\* conn.commit() raises; no rollback is issued.
AddUserCommitFail(t) ==
    /\ pc[t] = "add_commit"
    /\ \/ UNCHANGED dbVars
       \/ /\ writer' = NoConn
          /\ pending' = disk
          /\ UNCHANGED disk
    /\ AddUserReturn(t)

\* ---------------------------------------------- get_unique_users_count
get_unique_users_count(t) == Call(t, "get_unique_users_count", 0)

\* CREATE TABLE IF NOT EXISTS users (...): a no-op when the table exists;
\* otherwise the DDL statement takes effect at once, or inside the
\* transaction the connection already has open.
CountCreate(t) ==
    /\ pc[t] = "body"
    /\ op[t].name = "get_unique_users_count"
    /\ View(conn[t]).has_users \/ ~Busy(conn[t])
    /\ IF View(conn[t]).has_users
       THEN UNCHANGED dbVars
       ELSE IF writer = conn[t]
       THEN /\ pending' = [pending EXCEPT !.has_users = TRUE]
            /\ UNCHANGED <<disk, writer>>
       ELSE /\ disk' = [disk EXCEPT !.has_users = TRUE]
            /\ pending' = disk'
            /\ UNCHANGED writer
    /\ pc' = [pc EXCEPT ![t] = "count_select"]
    /\ UNCHANGED <<webVars, added, failed, scen, cl, last_clean, poolVars, op, conn, ret,
                   calls, histVars>>

\* SELECT COUNT(*) FROM users; return count or 0
CountSelect(t) ==
    /\ pc[t] = "count_select"
    /\ ret' = [ret EXCEPT ![t] =
                 [kind |-> "int", val |-> Cardinality(View(conn[t]).users)]]
    /\ seen' = [seen EXCEPT ![t] =
                 [quiet |-> ~AddInFlight, n |-> Cardinality(added)]]
    /\ pc' = [pc EXCEPT ![t] = "rel_put"]
    /\ UNCHANGED <<webVars, added, failed, scen, cl, last_clean, poolVars, dbVars, op, conn,
                   calls, inc_ok, inc_err, waited>>

\* Either statement raises: except Exception logs and returns 0.
CountFail(t) ==
    /\ pc[t] \in {"body", "count_select"}
    /\ op[t].name = "get_unique_users_count"
    /\ ret' = [ret EXCEPT ![t] = [kind |-> "int", val |-> 0]]
    /\ failed' = [failed EXCEPT ![t] = TRUE]
    /\ pc' = [pc EXCEPT ![t] = "rel_put"]
    /\ UNCHANGED <<webVars, added, scen, cl, last_clean, poolVars, dbVars, op, conn,
                   calls, histVars>>

\* ----------------------------------------------------- get_usage_stats
get_usage_stats(t) == Call(t, "get_usage_stats", 0)

\* The result returned on either except path.
ZeroStats ==
    [current_connections |-> 0, peak_last_hour |-> 0, avg_last_hour |-> 0,
     all_time_max |-> 0]

\* MAX(column): the largest value, None (reported as 0) over no rows.
MaxOrZero(S) == IF S = {} THEN 0 ELSE CHOOSE x \in S : \A y \in S : y <= x

RECURSIVE SumConcurrent(_)
SumConcurrent(rows) ==
    IF rows = {} THEN 0
    ELSE LET r == CHOOSE x \in rows : TRUE
         IN r.concurrent_connections + SumConcurrent(rows \ {r})

\* round(float(AVG(concurrent_connections)), 2), in hundredths; None is
\* reported as 0.  (No average of fewer than 8 integers lies halfway
\* between two hundredths, so the rounding mode does not matter here.)
AvgConcurrent(rows) ==
    IF rows = {} THEN 0
    ELSE (200 * SumConcurrent(rows) + Cardinality(rows))
             \div (2 * Cardinality(rows))

\* hour_ago = int(time.time()) - 3600; SELECT MAX(...), AVG(...), MAX(...)
\* FROM usage_stats WHERE timestamp > ?
LastHour(stats, now_s) == {s \in stats : s.timestamp > now_s - Hour}

\* The SELECT returns; the result dict is built, current_connections read
\* from db.active_connections.
StatsSelect(t) ==
    /\ pc[t] = "body"
    /\ op[t].name = "get_usage_stats"
    /\ LET rows == LastHour(View(conn[t]).usage_stats, now)
       IN ret' = [ret EXCEPT ![t] =
            [kind |-> "dict",
             val |-> [current_connections |-> active_connections,
                      peak_last_hour |->
                          MaxOrZero({r.concurrent_connections : r \in rows}),
                      avg_last_hour |-> AvgConcurrent(rows),
                      all_time_max |->
                          MaxOrZero({r.max_concurrent : r \in rows})]]]
    /\ pc' = [pc EXCEPT ![t] = "rel_put"]
    /\ UNCHANGED <<webVars, added, failed, scen, cl, last_clean, poolVars, dbVars,
                   op, conn, calls, histVars>>

\* The SELECT raises sqlite3.Error: the inner except logs and returns the
\* zeroed result.
StatsSelectFailLive(t) ==
    /\ pc[t] = "body"
    /\ op[t].name = "get_usage_stats"
    /\ ret' = [ret EXCEPT ![t] =
                 [kind |-> "dict",
                  val |-> [ZeroStats EXCEPT
                             !.current_connections = active_connections]]]
    /\ failed' = [failed EXCEPT ![t] = TRUE]
    /\ pc' = [pc EXCEPT ![t] = "rel_put"]
    /\ UNCHANGED <<webVars, added, scen, cl, last_clean, poolVars, dbVars,
                   op, conn, calls, histVars>>

StatsSelectFail(t) ==
    /\ pc[t] = "body"
    /\ op[t].name = "get_usage_stats"
    /\ ret' = [ret EXCEPT ![t] = [kind |-> "dict", val |-> ZeroStats]]
    /\ failed' = [failed EXCEPT ![t] = TRUE]
    /\ pc' = [pc EXCEPT ![t] = "rel_put"]
    /\ UNCHANGED <<webVars, added, scen, cl, last_clean, poolVars, dbVars,
                   op, conn, calls, histVars>>

\* --------------------------------------------------- cleanup_old_stats
cleanup_old_stats(t) == Call(t, "cleanup_old_stats", 0)

\* DELETE FROM usage_stats WHERE timestamp < ?
DeleteOldInclusive(stats, day_ago) == {s \in stats : ~(s.timestamp <= day_ago)}
DeleteOld(stats, day_ago) == {s \in stats : ~(s.timestamp < day_ago)}

CleanupDeleteAll(t) ==
    /\ pc[t] = "body"
    /\ op[t].name = "cleanup_old_stats"
    /\ ~Busy(conn[t])
    /\ pending' = [View(conn[t]) EXCEPT !.usage_stats = {},
                                        !.referral_counts = <<>>]
    /\ cl' = [cl EXCEPT ![t] =
                [at |-> now, before |-> View(conn[t]).usage_stats,
                 after |-> {}, rerun |-> FALSE]]
    /\ writer' = conn[t]
    /\ pc' = [pc EXCEPT ![t] = "clean_commit"]
    /\ UNCHANGED <<webVars, added, failed, scen, last_clean, poolVars, disk, op, conn,
                   ret, calls, histVars>>

\* day_ago = int(time.time()) - 86400; conn.execute(DELETE ..., (day_ago,))
\* -- the statement opens the connection's transaction.
CleanupDelete(t) ==
    /\ pc[t] = "body"
    /\ op[t].name = "cleanup_old_stats"
    /\ ~Busy(conn[t])
    /\ LET day_ago == now - Day
           before == View(conn[t]).usage_stats
       IN /\ pending' = [View(conn[t]) EXCEPT
                            !.usage_stats = DeleteOld(@, day_ago)]
          /\ cl' = [cl EXCEPT ![t] =
                      [at |-> now, before |-> before, after |-> {},
                       rerun |-> last_clean.at = now
                                   /\ last_clean.kept = before]]
    /\ writer' = conn[t]
    /\ pc' = [pc EXCEPT ![t] = "clean_commit"]
    /\ UNCHANGED <<webVars, added, failed, scen, last_clean, poolVars, disk, op, conn, ret,
                   calls, histVars>>

\* conn.commit(); cleanup_old_stats returns None.
CleanupCommit(t) ==
    /\ pc[t] = "clean_commit"
    /\ CommitOn(conn[t])
    /\ cl' = [cl EXCEPT ![t].after = disk'.usage_stats]
    /\ last_clean' = [at |-> cl[t].at, kept |-> disk'.usage_stats]
    /\ ret' = [ret EXCEPT ![t] = [kind |-> "None", val |-> 0]]
    /\ pc' = [pc EXCEPT ![t] = "rel_put"]
    /\ UNCHANGED <<webVars, added, failed, scen, poolVars, op, conn, calls, histVars>>

\* A storage call raises: cleanup_old_stats has no except clause, the
\* exception leaves it through get_connection's finally block.
CleanupRaise(t) ==
    /\ ret' = [ret EXCEPT ![t] = [kind |-> "raised", val |-> 0]]
    /\ pc' = [pc EXCEPT ![t] = "rel_put"]
    /\ UNCHANGED <<webVars, added, failed, scen, cl, last_clean, poolVars, op, conn, calls,
                   histVars>>

CleanupDeleteFail(t) ==
    /\ pc[t] = "body"
    /\ op[t].name = "cleanup_old_stats"
    /\ UNCHANGED dbVars
    /\ CleanupRaise(t)

\* conn.commit() raises; no rollback is issued.
CleanupCommitFail(t) ==
    /\ pc[t] = "clean_commit"
    /\ \/ UNCHANGED dbVars
       \/ /\ writer' = NoConn
          /\ pending' = disk
          /\ UNCHANGED disk
    /\ CleanupRaise(t)

\* One second passes on the wall clock.
ClockTick ==
    /\ now < Epoch + MaxTicks
    /\ now' = now + 1
    /\ UNCHANGED <<webVars, added, failed, scen, cl, last_clean, pool, lock,
                   active_connections, max_concurrent, tables_created,
                   dbVars, pc, op, conn, ret, calls, histVars>>

\* ---------------------------------------------------------------- Spec
\* The referral store: callers running increment_referral_count and
\* get_referral_count, with storage calls that may fail.
ReferralStep(t) ==
    \/ Acquire(t)
    \/ ReleasePut(t)
    \/ ReleaseDec(t)
    \/ IncExecute(t)
    \/ IncExecuteFail(t)
    \/ IncCommit(t)
    \/ IncCommitFail(t)
    \/ GetRefSelect(t)
    \/ GetRefSelectFail(t)

ReferralCall(t) ==
    \E u \in Users : increment_referral_count(t, u) \/ get_referral_count(t, u)

Next == \E t \in StoreCallers : ReferralStep(t) \/ ReferralCall(t)

Spec == Init /\ [][Next]_vars

\* The user registry: callers running add_new_user and
\* get_unique_users_count.
RegistryStep(t) ==
    \/ Acquire(t)
    \/ ReleasePut(t)
    \/ ReleaseDec(t)
    \/ AddUserInsert(t)
    \/ AddUserInsertFail(t)
    \/ AddUserCommit(t)
    \/ AddUserCommitFail(t)
    \/ CountCreate(t)
    \/ CountSelect(t)
    \/ CountFail(t)

RegistryCall(t) ==
    \/ \E u \in Users : add_new_user(t, u)
    \/ get_unique_users_count(t)

NextRegistry == \E t \in StoreCallers : RegistryStep(t) \/ RegistryCall(t)

SpecRegistry == Init /\ [][NextRegistry]_vars

\* The usage statistics: callers running cleanup_old_stats on a table of
\* stored samples while the clock advances.
StatsStep(t) ==
    \/ Acquire(t)
    \/ ReleasePut(t)
    \/ ReleaseDec(t)
    \/ CleanupDelete(t)
    \/ CleanupDeleteFail(t)
    \/ CleanupCommit(t)
    \/ CleanupCommitFail(t)

NextStats ==
    \/ \E t \in StoreCallers : StatsStep(t) \/ cleanup_old_stats(t)
    \/ ClockTick

SpecStats == InitStats /\ [][NextStats]_vars

\* The user registry on storage that never fails: every statement runs,
\* and raises only what it raises on a healthy database.
RegistryStepNoFault(t) ==
    \/ Acquire(t)
    \/ ReleasePut(t)
    \/ ReleaseDec(t)
    \/ AddUserInsert(t)
    \/ AddUserNoTable(t)
    \/ AddUserCommit(t)
    \/ CountCreate(t)
    \/ CountSelect(t)

NextRegistryNoFault ==
    \E t \in StoreCallers : RegistryStepNoFault(t) \/ RegistryCall(t)

SpecRegistryNoFault == Init /\ [][NextRegistryNoFault]_vars

\* The whole store on storage that never fails, with more callers than
\* connections: each caller's own steps.
WorkStep(t) ==
    \/ PoolGet(t)
    \/ Acquire(t)
    \/ ReleasePut(t)
    \/ ReleaseDec(t)
    \/ IncLock(t)
    \/ IncExecuteLocked(t)
    \/ IncCommit(t)
    \/ GetRefSelect(t)
    \/ AddUserInsert(t)
    \/ AddUserNoTable(t)
    \/ AddUserCommit(t)
    \/ CountCreate(t)
    \/ CountSelect(t)
    \/ CleanupDelete(t)
    \/ CleanupCommit(t)
    \/ StatsSelect(t)

\* The user id the callers pass: no operation's control flow depends on it.
WorkUser == CHOOSE u \in Users : TRUE

\* Each caller runs one operation; callers are interchangeable, so they
\* are numbered in the order in which they start.
WorkCall(t) ==
    /\ calls = t - 1
    /\ \/ increment_referral_count(t, WorkUser)
       \/ get_referral_count(t, WorkUser)
       \/ add_new_user(t, WorkUser)
       \/ get_unique_users_count(t)
       \/ cleanup_old_stats(t)
       \/ get_usage_stats(t)

NextWork == \E t \in Callers : WorkStep(t) \/ WorkCall(t)

SpecWork == Init /\ [][NextWork]_vars

\* The threads are scheduled: a caller whose next step can be taken takes
\* it.
FairSpecWork == SpecWork /\ \A t \in Callers : WF_vars(WorkStep(t))

\* The reporting paths: callers running get_usage_stats and
\* get_unique_users_count, with storage calls that may fail.
ReportStep(t) ==
    \/ Acquire(t)
    \/ ReleasePut(t)
    \/ ReleaseDec(t)
    \/ StatsSelect(t)
    \/ StatsSelectFail(t)
    \/ CountCreate(t)
    \/ CountSelect(t)
    \/ CountFail(t)

ReportCall(t) ==
    \/ get_usage_stats(t)
    \/ get_unique_users_count(t)

NextReport == \E t \in StoreCallers : ReportStep(t) \/ ReportCall(t)

SpecReport == InitReport /\ [][NextReport]_vars

\* The whole store: callers running any of the six operations on a new
\* database, with storage calls that may fail.
StoreStep(t) ==
    \/ Acquire(t)
    \/ ReleasePut(t)
    \/ ReleaseDec(t)
    \/ IncExecute(t)
    \/ IncExecuteFail(t)
    \/ IncCommit(t)
    \/ IncCommitFail(t)
    \/ GetRefSelect(t)
    \/ GetRefSelectFail(t)
    \/ AddUserInsert(t)
    \/ AddUserInsertFail(t)
    \/ AddUserCommit(t)
    \/ AddUserCommitFail(t)
    \/ CountCreate(t)
    \/ CountSelect(t)
    \/ CountFail(t)
    \/ CleanupDelete(t)
    \/ CleanupDeleteFail(t)
    \/ CleanupCommit(t)
    \/ CleanupCommitFail(t)
    \/ StatsSelect(t)
    \/ StatsSelectFail(t)

StoreCall(t) ==
    /\ calls < MaxStoreCalls
    /\ \/ ReferralCall(t)
       \/ RegistryCall(t)
       \/ cleanup_old_stats(t)
       \/ get_usage_stats(t)

NextStore == \E t \in StoreCallers : StoreStep(t) \/ StoreCall(t)

SpecStore == Init /\ [][NextStore]_vars

\* The pool under contention: more callers than connections, each inside
\* `with db.get_connection()` around a read.
PoolStep(t) ==
    \/ PoolGet(t)
    \/ Acquire(t)
    \/ GetRefSelect(t)
    \/ ReleasePut(t)
    \/ ReleaseDec(t)

NextPool == \E t \in Callers : PoolStep(t) \/ (\E u \in Users : get_referral_count(t, u))

SpecPool == Init /\ [][NextPool]_vars

\* ------------------------------------------------------------- webhook
\* POST /api/webhook arrives: webhook(request) starts.
Receive(r) ==
    /\ w_pc[r] = "idle"
    /\ w_pc' = [w_pc EXCEPT ![r] = "parse"]
    /\ UNCHANGED <<storeVars, w_task, w_clock, w_status, w_log>>

\* return Response(status_code=200)
Respond(r, task, logged) ==
    /\ w_pc' = [w_pc EXCEPT ![r] = "responded"]
    /\ w_task' = [w_task EXCEPT ![r] = task]
    /\ w_status' = [w_status EXCEPT ![r] = StatusOK]
    /\ w_log' = [w_log EXCEPT ![r] = @ + logged]
    /\ UNCHANGED <<storeVars, w_clock>>

\* data = await request.json(); update = Update.de_json(data, bot_app.bot);
\* asyncio.wait_for(bot_app.process_update(update), timeout=8.0) starts the
\* processing task and the timer.
ParseUpdate(r) ==
    /\ w_pc[r] = "parse"
    /\ w_pc' = [w_pc EXCEPT ![r] = "wait"]
    /\ w_task' = [w_task EXCEPT ![r] = "running"]
    /\ UNCHANGED <<storeVars, w_clock, w_status, w_log>>

\* request.json() or Update.de_json raises: except Exception logs and
\* answers 200.
ParseRaise(r) ==
    /\ w_pc[r] = "parse"
    /\ Respond(r, "none", 1)

\* One second passes while the processing task runs.
Tick(r) ==
    /\ w_pc[r] = "wait"
    /\ w_task[r] = "running"
    /\ w_clock[r] < Timeout
    /\ w_clock' = [w_clock EXCEPT ![r] = @ + 1]
    /\ UNCHANGED <<storeVars, w_pc, w_task, w_status, w_log>>

\* process_update returns before the timer fires.
ProcessReturn(r) ==
    /\ w_pc[r] = "wait"
    /\ w_task[r] = "running"
    /\ Respond(r, "done", 0)

\* process_update raises: except Exception logs and answers 200.
ProcessRaise500(r) ==
    /\ w_pc[r] = "wait"
    /\ w_task[r] = "running"
    /\ w_pc' = [w_pc EXCEPT ![r] = "responded"]
    /\ w_task' = [w_task EXCEPT ![r] = "raised"]
    /\ w_status' = [w_status EXCEPT ![r] = 500]
    /\ w_log' = [w_log EXCEPT ![r] = @ + 1]
    /\ UNCHANGED <<storeVars, w_clock>>

ProcessRaise(r) ==
    /\ w_pc[r] = "wait"
    /\ w_task[r] = "running"
    /\ Respond(r, "raised", 1)

\* The timer fires after 8 seconds: wait_for cancels the processing task.
DeadlineNever(r) ==
    /\ w_pc[r] = "wait"
    /\ w_task[r] = "running"
    /\ w_clock[r] > Timeout
    /\ w_task' = [w_task EXCEPT ![r] = "cancelling"]
    /\ UNCHANGED <<storeVars, w_pc, w_clock, w_status, w_log>>

DeadlineExpire(r) ==
    /\ w_pc[r] = "wait"
    /\ w_task[r] = "running"
    /\ w_clock[r] = Timeout
    /\ w_task' = [w_task EXCEPT ![r] = "cancelling"]
    /\ UNCHANGED <<storeVars, w_pc, w_clock, w_status, w_log>>

\* The task ends cancelled, wait_for raises TimeoutError;
\* except asyncio.TimeoutError answers 200.
Cancelled(r) ==
    /\ w_pc[r] = "wait"
    /\ w_task[r] = "cancelling"
    /\ Respond(r, "cancelled", 0)

\* The dispatcher's own steps, which the event loop runs; the arrival of a
\* request and the outcome of process_update are the environment's.
WebhookStep(r) ==
    \/ ParseUpdate(r)
    \/ Tick(r)
    \/ DeadlineExpire(r)
    \/ Cancelled(r)

NextWeb ==
    \E r \in Requests :
        \/ Receive(r)
        \/ ParseRaise(r)
        \/ ProcessReturn(r)
        \/ ProcessRaise(r)
        \/ WebhookStep(r)

SpecWeb == Init /\ [][NextWeb]_vars

\* The event loop keeps running: time passes, the timer fires, and the
\* cancelled task (suspended at an await) ends.
FairSpecWeb == SpecWeb /\ \A r \in Requests : WF_vars(WebhookStep(r))

\* The callers of the pool run until they are done: the threads are
\* scheduled, and a blocked pool.get() or lock acquisition proceeds once it
\* can.
FairSpecPool == SpecPool /\ \A t \in Callers : WF_vars(PoolStep(t))

\* ------------------------------------------------------------- claims
\* Completed acquires: every started operation passes get_connection's
\* acquire exactly once.
Acquires == calls - Cardinality({t \in Callers : pc[t] \in {"get", "acquire"}})

\* C1: when every increment_referral_count(u) call so far has returned
\* True and none is in flight, get_referral_count(u) returns the number of
\* those calls: no increment is lost.
C1_NoLostUpdate ==
    \A t \in Callers :
        (ret[t].kind = "int" /\ seen[t].quiet) => ret[t].val = seen[t].n

C1_Witness ==
    \E t \in Callers : ret[t].kind = "int" /\ seen[t].quiet /\ ret[t].val = 2

\* C2: at most pool_size connections are borrowed, and no connection is
\* held by two callers at once.
C2_BorrowBound ==
    /\ Cardinality(Borrowed) <= pool_size
    /\ \A t1, t2 \in Callers :
          (t1 # t2 /\ conn[t1] # NoConn) => conn[t1] # conn[t2]

C2_Witness ==
    /\ Cardinality(Borrowed) = pool_size
    /\ \E t \in Callers : pc[t] = "get"

\* C3: a caller entering get_connection() while fewer than pool_size
\* connections are borrowed obtains one at once; a caller entering while
\* all are borrowed blocks, stays blocked while the pool is empty, is served
\* only with a connection that was put back, and is eventually served.
C3_BlockedUntilRelease ==
    /\ [][\A t \in Callers :
            (pc[t] = "idle" /\ pc'[t] # "idle") =>
                IF Cardinality(Borrowed) < pool_size
                THEN pc'[t] = "acquire" /\ conn'[t] # NoConn
                ELSE pc'[t] = "get" /\ conn'[t] = NoConn]_vars
    /\ [][\A t \in Callers :
            (pc[t] = "get" /\ pc'[t] # "get") =>
                pool # <<>> /\ conn'[t] = Head(pool)]_vars
    /\ \A t \in Callers : (pc[t] = "get") ~> (pc[t] = "acquire")

C3_Witness ==
    \E t \in Callers : waited[t] /\ conn[t] # NoConn

\* C6: the stored referral count of every user is the number of
\* increment calls for that user that returned True: a call that fails
\* leaves no write behind.
C6_FailedIncrementLeavesNoWrite ==
    \A u \in Users : RefCountOf(disk.referral_counts, u) = inc_ok[u]

\* C7: get_referral_count returns 0 for a user that was never incremented
\* and never ends with an error.
C7_GetNeverFails ==
    \A t \in Callers :
        /\ ret[t].kind # "raised"
        /\ (ret[t].kind = "int" /\ seen[t].quiet /\ seen[t].n = 0)
              => ret[t].val = 0

\* C9: usage_stats holds one sample per completed acquire.
C9_SamplePerAcquire == Cardinality(disk.usage_stats) = Acquires

\* C4: every answered POST /api/webhook request was answered with 200,
\* whether processing completed, timed out, or parsing or processing raised.
C4_AlwaysOK ==
    \A r \in Requests : w_pc[r] = "responded" => w_status[r] = StatusOK

C4_Witness ==
    \E r1, r2 \in Requests :
        /\ w_pc[r1] = "responded" /\ w_task[r1] = "raised"
        /\ w_pc[r2] = "responded" /\ w_task[r2] = "cancelled"

C8_SecondAddKeepsCount == scen.stage = 8 => scen.c2 = scen.c1

\* C10: a cleanup_old_stats() call that returns has removed exactly the
\* samples with timestamp < now - 86400 and kept every other sample, and a
\* call run at the same time as the cleanup before it, on what that cleanup
\* kept, removes nothing.
C10_CleanupWindow ==
    \A t \in Callers :
        (op[t].name = "cleanup_old_stats" /\ ret[t].kind = "None") =>
            /\ cl[t].after \subseteq cl[t].before
            /\ \A s \in cl[t].before :
                  s \in cl[t].after <=> ~(s.timestamp < cl[t].at - Day)
            /\ cl[t].rerun => cl[t].after = cl[t].before

C10_Witness ==
    \E t1, t2 \in Callers :
        /\ t1 # t2
        /\ op[t1].name = "cleanup_old_stats" /\ ret[t1].kind = "None"
        /\ op[t2].name = "cleanup_old_stats" /\ ret[t2].kind = "None"
        /\ cl[t2].rerun /\ cl[t2].at = cl[t1].at
        /\ cl[t2].before = cl[t1].after
        /\ cl[t1].after # cl[t1].before
        /\ \E s \in cl[t1].after : s.timestamp = cl[t1].at - Day

\* C11: a get_usage_stats() call in which a storage call failed returns the
\* all-zero result, a get_unique_users_count() call in which one failed
\* returns 0, neither ends with an error, and once the call has left
\* get_connection's finally block its connection is back in the pool.
C11_ReportingDegrades ==
    \A t \in Callers :
        failed[t] =>
            /\ op[t].name = "get_usage_stats" =>
                  (ret[t].kind = "dict" /\ ret[t].val = ZeroStats)
            /\ op[t].name = "get_unique_users_count" =>
                  (ret[t].kind = "int" /\ ret[t].val = 0)
            /\ pc[t] = "rel_dec" =>
                  /\ conn[t] = NoConn
                  /\ Len(pool) + Cardinality(Borrowed) = pool_size

C11_Witness ==
    \E t1, t2 \in Callers :
        /\ failed[t1] /\ op[t1].name = "get_usage_stats"
        /\ failed[t2] /\ op[t2].name = "get_unique_users_count"
        /\ pc[t1] = "rel_dec" /\ pc[t2] = "rel_dec"
        /\ LastHour(disk.usage_stats, now) # {}

\* C12: active_connections is never negative, and max_concurrent never
\* decreases from one state to the next.
C12_CountersSane ==
    /\ [](active_connections >= 0)
    /\ [][max_concurrent' >= max_concurrent]_vars

C12_Witness ==
    /\ \A t \in Callers : pc[t] = "idle"
    /\ active_connections = 0
    /\ max_concurrent >= pool_size
    /\ calls = MaxCalls

C14_CountsEveryAddedUser ==
    \A t \in Callers :
        (op[t].name = "get_unique_users_count" /\ ret[t].kind = "int"
            /\ seen[t].quiet) => ret[t].val = seen[t].n

\* C15: a request answered after its deadline expired or after processing
\* raised has made a log entry before the answer.
C15_FailuresLogged ==
    \A r \in Requests :
        (w_pc[r] = "responded" /\ w_task[r] \in {"cancelled", "raised"})
            => w_log[r] >= 1

\* The connections in the pool, as a set.
Idle == {pool[i] : i \in DOMAIN pool}

\* C16: every connection is either idle in the pool or borrowed by a
\* caller, never both or neither, so idle plus borrowed equals pool_size; a
\* caller whose block has ended, with an error or without, holds no
\* connection; and when every caller has finished the pool holds pool_size
\* connections.
C16_ConnectionsConserved ==
    /\ Len(pool) + Cardinality(Borrowed) = pool_size
    /\ Cardinality(Idle) = Len(pool)
    /\ Idle \cup {conn[t] : t \in Borrowed} = Conns
    /\ \A t \in Callers : pc[t] \in {"idle", "rel_dec"} => conn[t] = NoConn
    /\ (\A t \in Callers : pc[t] = "idle") => Len(pool) = pool_size

C16_Witness ==
    /\ Len(pool) = pool_size
    /\ \E t \in Callers : pc[t] = "rel_dec" /\ ret[t].kind = "raised"
    /\ \E t \in Callers : pc[t] = "rel_dec" /\ ret[t].kind = "False"

\* C17: active_connections never exceeds pool_size, and so neither does
\* max_concurrent.
C17_CounterWithinPool ==
    /\ active_connections <= pool_size
    /\ max_concurrent <= pool_size

\* C18: whenever no caller is between pool.get() and the increment, or
\* between pool.put() and the decrement, active_connections is the number
\* of borrowed connections; when every caller has released it is 0.
C18_CounterMatchesBorrowed ==
    /\ (\A t \in Callers : pc[t] \notin {"acquire", "rel_dec"})
          => active_connections = Cardinality(Borrowed)
    /\ (\A t \in Callers : pc[t] = "idle") => active_connections = 0

C18_Witness ==
    /\ \A t \in Callers : pc[t] \notin {"acquire", "rel_dec"}
    /\ Cardinality(Borrowed) = pool_size
    /\ \E t \in Callers : waited[t] /\ conn[t] # NoConn
    /\ active_connections = pool_size

\* C19: every caller that has started a store operation eventually
\* finishes it, whatever the other callers run.
C19_EveryCallerFinishes ==
    \A t \in Callers : (pc[t] # "idle") ~> (pc[t] = "idle")

C19_Witness ==
    \E t1, t2, t3 \in Callers :
        /\ pc[t1] = "inc_execute" /\ lock = t1 /\ Busy(conn[t1])
        /\ pc[t2] \in {"add_commit", "clean_commit"} /\ writer = conn[t2]
        /\ pc[t3] = "get"

====
